---- MODULE Spec2Model ----
(***************************************************************************)
(* Commit-message suggestion engine of my-agent (tools module):           *)
(* generateCommitMessage and the helpers it calls, as a state machine.    *)
(* Strings are TLA+ strings; the JavaScript string methods the code uses  *)
(* (includes, endsWith, split, toLowerCase, replace, trim, ...) are       *)
(* operators that compute what the methods compute.                       *)
(***************************************************************************)
EXTENDS Integers, Sequences, FiniteSets, TLC

VARIABLES
    rootDir,         \* parameter: the directory path
    style,           \* parameter: "conventional" | "semantic" | "descriptive"
    maxSuggestions,  \* parameter
    includeScope,    \* parameter
    repo,            \* the repository the path names (external state)
    pc,              \* position inside the operation called
    calls,           \* collaborator operations invoked so far
    status,          \* result of git.status(), <<>> until it has completed
    summary,         \* result of git.diffSummary(["--cached"]), <<>> until completed
    changedFiles,    \* summary.files after the exclusion filter
    analysis,        \* result of analyzeChanges, <<>> until computed
    suggestions,     \* the suggestions pushed so far
    loopI,           \* the loop variable i of the suggestion loop
    error,           \* the exception in flight, <<>> when none
    response,        \* the value returned, <<>> until the call returns
    diffs            \* getFileChangesInDirectory: the entries pushed so far

vars == <<rootDir, style, maxSuggestions, includeScope, repo, pc, calls, status,
          summary, changedFiles, analysis, suggestions, loopI, error, response,
          diffs>>

(***************************************************************************)
(* Bounds of the model.                                                    *)
(***************************************************************************)
\* insertions and deletions of a changed file range over 0..MaxLines
MaxLines == 1

(***************************************************************************)
(* JavaScript string methods.                                              *)
(***************************************************************************)
UpperLetters == "ABCDEFGHIJKLMNOPQRSTUVWXYZ"
LowerLetters == "abcdefghijklmnopqrstuvwxyz"
Digits == "0123456789"

charAt(s, i) == SubSeq(s, i, i)

includes(s, sub) ==
    \E i \in 1..(Len(s) - Len(sub) + 1) : SubSeq(s, i, i + Len(sub) - 1) = sub

endsWith(s, suf) ==
    /\ Len(suf) <= Len(s)
    /\ SubSeq(s, Len(s) - Len(suf) + 1, Len(s)) = suf

startsWith(s, pre) ==
    /\ Len(pre) <= Len(s)
    /\ SubSeq(s, 1, Len(pre)) = pre

LowerChar(c) ==
    IF includes(UpperLetters, c) /\ c # ""
    THEN charAt(LowerLetters, CHOOSE i \in 1..26 : charAt(UpperLetters, i) = c)
    ELSE c

UpperChar(c) ==
    IF includes(LowerLetters, c) /\ c # ""
    THEN charAt(UpperLetters, CHOOSE i \in 1..26 : charAt(LowerLetters, i) = c)
    ELSE c

RECURSIVE toLowerCase(_)
toLowerCase(s) ==
    IF s = "" THEN "" ELSE LowerChar(Head(s)) \o toLowerCase(Tail(s))

RECURSIVE toUpperCase(_)
toUpperCase(s) ==
    IF s = "" THEN "" ELSE UpperChar(Head(s)) \o toUpperCase(Tail(s))

IsSpace(c) == c \in {" ", "\t", "\n"}

RECURSIVE trimStart(_)
trimStart(s) ==
    IF s # "" /\ IsSpace(Head(s)) THEN trimStart(Tail(s)) ELSE s

RECURSIVE trimEnd(_)
trimEnd(s) ==
    IF s # "" /\ IsSpace(charAt(s, Len(s)))
    THEN trimEnd(SubSeq(s, 1, Len(s) - 1))
    ELSE s

trim(s) == trimEnd(trimStart(s))

\* s.split(sep) for a one-character separator: "" splits to [""]
RECURSIVE SplitFrom(_, _, _)
SplitFrom(s, sep, cur) ==
    IF s = "" THEN <<cur>>
    ELSE IF Head(s) = sep THEN <<cur>> \o SplitFrom(Tail(s), sep, "")
    ELSE SplitFrom(Tail(s), sep, cur \o Head(s))

split(s, sep) == SplitFrom(s, sep, "")

RECURSIVE join(_, _)
join(parts, sep) ==
    IF parts = <<>> THEN ""
    ELSE IF Len(parts) = 1 THEN parts[1]
    ELSE parts[1] \o sep \o join(Tail(parts), sep)

\* array.filter(Boolean) on an array of strings: drops the empty strings
RECURSIVE filterBoolean(_)
filterBoolean(parts) ==
    IF parts = <<>> THEN <<>>
    ELSE IF parts[1] = "" THEN filterBoolean(Tail(parts))
    ELSE <<parts[1]>> \o filterBoolean(Tail(parts))

\* \w of a JavaScript regular expression
IsWordChar(c) ==
    /\ c # ""
    /\ \/ includes(UpperLetters, c)
       \/ includes(LowerLetters, c)
       \/ includes(Digits, c)
       \/ c = "_"

\* /\bupdate\b/ matches at position i of s
WordAt(s, i, word) ==
    /\ i + Len(word) - 1 <= Len(s)
    /\ SubSeq(s, i, i + Len(word) - 1) = word
    /\ (i = 1 \/ ~IsWordChar(charAt(s, i - 1)))
    /\ (i + Len(word) > Len(s) \/ ~IsWordChar(charAt(s, i + Len(word))))

\* s.replace(/\bword\b/g, repl)
RECURSIVE ReplaceFrom(_, _, _, _)
ReplaceFrom(s, i, word, repl) ==
    IF i > Len(s) THEN ""
    ELSE IF WordAt(s, i, word)
         THEN repl \o ReplaceFrom(s, i + Len(word), word, repl)
         ELSE charAt(s, i) \o ReplaceFrom(s, i + 1, word, repl)

\* mutant: nothing is replaced
replaceWord_unchanged(s, word, repl) == s

replaceWord(s, word, repl) == ReplaceFrom(s, 1, word, repl)

\* s.charAt(0).toUpperCase() + s.slice(1)
capitalize(s) ==
    IF s = "" THEN "" ELSE UpperChar(Head(s)) \o Tail(s)

\* array helpers
Range(seq) == {seq[k] : k \in 1..Len(seq)}

\* Array.from(new Set(seq)): the distinct elements in order of first occurrence
RECURSIVE Distinct(_)
Distinct(seq) ==
    IF seq = <<>> THEN <<>>
    ELSE LET init == Distinct(SubSeq(seq, 1, Len(seq) - 1))
             last == seq[Len(seq)]
         IN IF last \in Range(init) THEN init ELSE Append(init, last)

(***************************************************************************)
(* Data of the tools module.                                               *)
(***************************************************************************)
excludeFiles == <<"dist", "bun.lock", ".DS_Store", "node_modules">>

Styles == {"conventional", "semantic", "descriptive"}

\* the limits of maxSuggestions
MinSuggestions == 1
MaxSuggestions == 5

\* mutant: startsWith instead of includes
isExcluded_prefix(f) == \E k \in 1..Len(excludeFiles) : startsWith(f.file, excludeFiles[k])

\* excludeFiles.some((excluded) => file.file.includes(excluded))
isExcluded(f) == \E k \in 1..Len(excludeFiles) : includes(f.file, excludeFiles[k])

\* mutant: nothing is filtered out
filterExcluded_none(files) == files

\* summary.files.filter(file => !excludeFiles.some(...))
filterExcluded(files) == SelectSeq(files, LAMBDA f : ~isExcluded(f))

\* "insertions" in file && "deletions" in file (a binary entry has neither)
hasCounts(f) == {"insertions", "deletions"} \subseteq DOMAIN f

\* mutant: any insertion makes the file an addition
fileNature_anyInsertion(f) ==
    IF hasCounts(f)
    THEN IF f.insertions > 0 THEN "addition"
         ELSE IF f.deletions > 0 THEN "deletion"
         ELSE "modification"
    ELSE "modification"

\* the nature of one file as analyzeChanges tags it
fileNature(f) ==
    IF hasCounts(f)
    THEN IF f.insertions > 0 /\ f.deletions = 0 THEN "addition"
         ELSE IF f.deletions > 0 /\ f.insertions = 0 THEN "deletion"
         ELSE "modification"
    ELSE "modification"

\* mutant: shift() instead of pop(): the part before the first dot
fileExtension_first(fileName) ==
    LET parts == split(fileName, ".") IN toLowerCase(parts[1])

\* fileName.split(".").pop()?.toLowerCase() ?? ""
fileExtension(fileName) ==
    LET parts == split(fileName, ".") IN toLowerCase(parts[Len(parts)])

(***************************************************************************)
(* findCommonPath                                                          *)
(***************************************************************************)
\* the loop over firstPath: the longest prefix of it every path shares
commonParts(splitPaths) ==
    LET firstPath == splitPaths[1]
        shared(i) == \A k \in 1..Len(splitPaths) :
                        Len(splitPaths[k]) >= i /\ splitPaths[k][i] = firstPath[i]
        n == CHOOSE m \in 0..Len(firstPath) :
                /\ \A j \in 1..m : shared(j)
                /\ (m = Len(firstPath) \/ ~shared(m + 1))
    IN SubSeq(firstPath, 1, n)

findCommonPath(filePaths) ==
    LET validPaths == SelectSeq(filePaths,
                          LAMBDA path : Len(path) > 0 /\ ~startsWith(path, ".."))
    IN IF Len(validPaths) = 0 THEN ""
       ELSE IF Len(validPaths) = 1
       THEN LET pathParts == split(validPaths[1], "/")
            IN IF Len(pathParts) > 1
               THEN join(SubSeq(pathParts, 1, Len(pathParts) - 1), "/")
               ELSE ""
       ELSE LET splitPaths == [k \in 1..Len(validPaths) |->
                                  filterBoolean(split(validPaths[k], "/"))]
            IN IF Len(splitPaths[1]) = 0 THEN ""
               ELSE join(commonParts(splitPaths), "/")

\* mutant: the generic "src" segment is not skipped
scopeFromPaths_keepSrc(validFiles) ==
    LET filePaths == filterBoolean([k \in 1..Len(validFiles) |-> validFiles[k].file])
        commonPath == findCommonPath(filePaths)
    IN IF commonPath # "" /\ commonPath # "."
       THEN LET scopeParts == filterBoolean(split(commonPath, "/"))
            IN IF Len(scopeParts) > 0 THEN scopeParts[1] ELSE ""
       ELSE ""

\* the scope analyzeChanges derives from the directory structure
scopeFromPaths(validFiles) ==
    LET filePaths == filterBoolean([k \in 1..Len(validFiles) |-> validFiles[k].file])
        commonPath == findCommonPath(filePaths)
    IN IF commonPath # "" /\ commonPath # "."
       THEN LET scopeParts == filterBoolean(split(commonPath, "/"))
                first == IF Len(scopeParts) > 0 THEN scopeParts[1] ELSE ""
            IN IF first = "src" /\ Len(scopeParts) > 1 THEN scopeParts[2] ELSE first
       ELSE ""

(***************************************************************************)
(* analyzeChanges                                                          *)
(***************************************************************************)
\* f.file.includes("test") || ... || f.file.endsWith(".spec.js")
isTestFile(f) ==
    \/ includes(f.file, "test")
    \/ includes(f.file, "spec")
    \/ includes(f.file, "__tests__")
    \/ endsWith(f.file, ".test.ts")
    \/ endsWith(f.file, ".test.js")
    \/ endsWith(f.file, ".spec.ts")
    \/ endsWith(f.file, ".spec.js")

\* the safe defaults analyzeChanges returns from its catch block
defaultAnalysis ==
    [type |-> "feat", scope |-> "", description |-> "update code",
     fileTypes |-> <<"unknown">>, changeTypes |-> <<"modification">>]

\* the ordered rules that set type, description and a fixed scope
classify(validFiles, fileTypes, hasNewFiles, hasDeletedFiles, hasModifiedFiles) ==
    LET has(ext) == ext \in Range(fileTypes)
        every(P(_)) == \A k \in 1..Len(validFiles) : P(validFiles[k])
        some(P(_)) == \E k \in 1..Len(validFiles) : P(validFiles[k])
    IN IF /\ has("md")
          /\ Len(validFiles) > 0
          /\ every(LAMBDA f : includes(toLowerCase(f.file), "readme")
                                 \/ endsWith(f.file, ".md"))
       THEN [type |-> "docs", description |-> "update documentation", scope |-> ""]
       ELSE IF has("json") /\ some(LAMBDA f : f.file = "package.json")
       THEN [type |-> "chore", description |-> "update dependencies", scope |-> "deps"]
       ELSE IF some(LAMBDA f : \/ includes(f.file, "package-lock.json")
                                \/ includes(f.file, "yarn.lock")
                                \/ includes(f.file, "bun.lock"))
       THEN [type |-> "chore", description |-> "update lockfile", scope |-> "deps"]
       ELSE IF has("ts") \/ has("js") \/ has("jsx") \/ has("tsx")
       THEN IF Len(validFiles) > 0 /\ every(isTestFile)
            THEN [type |-> "test", description |-> "update tests", scope |-> ""]
            ELSE IF hasNewFiles /\ ~hasDeletedFiles
            THEN [type |-> "feat", description |-> "add new functionality", scope |-> ""]
            ELSE IF hasDeletedFiles /\ ~hasNewFiles
            THEN [type |-> "refactor", description |-> "remove code", scope |-> ""]
            ELSE IF hasDeletedFiles /\ hasNewFiles
            THEN [type |-> "refactor", description |-> "restructure code", scope |-> ""]
            ELSE [type |-> IF hasModifiedFiles THEN "refactor" ELSE "fix",
                  description |-> IF hasModifiedFiles THEN "update implementation"
                                                      ELSE "fix issue",
                  scope |-> ""]
       ELSE IF has("css") \/ has("scss") \/ has("sass") \/ has("less")
       THEN [type |-> "style", description |-> "update styles", scope |-> ""]
       ELSE IF has("yml") \/ has("yaml") \/ has("toml") \/ has("ini")
       THEN [type |-> "chore", description |-> "update configuration", scope |-> "config"]
       ELSE [type |-> "feat", description |-> "update code", scope |-> ""]

\* mutant: the modification flag is never set
analyzeChanges_noModifiedFlag(files) ==
    IF Len(files) = 0 THEN defaultAnalysis
    ELSE
    LET validFiles == SelectSeq(files, LAMBDA f : f.file # "")
        extensions == [k \in 1..Len(validFiles) |-> fileExtension(validFiles[k].file)]
        meaningful == SelectSeq(extensions, LAMBDA e : e # "" /\ Len(e) <= 10)
        natures == [k \in 1..Len(validFiles) |-> fileNature(validFiles[k])]
        fileTypes == IF meaningful = <<>> THEN <<"unknown">> ELSE Distinct(meaningful)
        changeTypes == IF natures = <<>> THEN <<"modification">> ELSE Distinct(natures)
        hasNewFiles == "addition" \in Range(natures)
        hasDeletedFiles == "deletion" \in Range(natures)
        rule == classify(validFiles, fileTypes, hasNewFiles, hasDeletedFiles, FALSE)
        scope == IF rule.scope = "" /\ Len(validFiles) > 0
                 THEN scopeFromPaths(validFiles)
                 ELSE rule.scope
    IN [type |-> rule.type, scope |-> scope, description |-> rule.description,
        fileTypes |-> fileTypes, changeTypes |-> changeTypes]

analyzeChanges(files) ==
    IF Len(files) = 0 THEN defaultAnalysis
    ELSE
    LET validFiles == SelectSeq(files, LAMBDA f : f.file # "")
        extensions == [k \in 1..Len(validFiles) |-> fileExtension(validFiles[k].file)]
        meaningful == SelectSeq(extensions, LAMBDA e : e # "" /\ Len(e) <= 10)
        natures == [k \in 1..Len(validFiles) |-> fileNature(validFiles[k])]
        fileTypes == IF meaningful = <<>> THEN <<"unknown">> ELSE Distinct(meaningful)
        changeTypes == IF natures = <<>> THEN <<"modification">> ELSE Distinct(natures)
        hasNewFiles == "addition" \in Range(natures)
        hasDeletedFiles == "deletion" \in Range(natures)
        hasModifiedFiles == "modification" \in Range(natures) \/ natures = <<>>
        rule == classify(validFiles, fileTypes, hasNewFiles, hasDeletedFiles,
                         hasModifiedFiles)
        scope == IF rule.scope = "" /\ Len(validFiles) > 0
                 THEN scopeFromPaths(validFiles)
                 ELSE rule.scope
    IN [type |-> rule.type, scope |-> scope, description |-> rule.description,
        fileTypes |-> fileTypes, changeTypes |-> changeTypes]

(***************************************************************************)
(* generateSuggestion                                                      *)
(***************************************************************************)
\* `git commit -m "${message}"`
commitCommand(message) == "git commit -m \"" \o message \o "\""

\* mutant: the second suggestion is tagged primary too
priorityOf_firstTwo(variant) == IF variant <= 1 THEN "primary" ELSE "alternative"

\* variant === 0 ? "primary" : "alternative"
priorityOf(variant) == IF variant = 0 THEN "primary" ELSE "alternative"

\* mutant: the scope is written whether or not it was asked for
render_scopeAlways(safeType, safeScope, safeDescription, styleArg, includeScopeArg, variant) ==
    LET scopeStr == IF safeScope # ""
                    THEN "(" \o safeScope \o ")" ELSE ""
        head == safeType \o scopeStr \o ": "
    IN CASE styleArg = "conventional" ->
              IF variant = 0
              THEN [message |-> head \o safeDescription,
                    rationale |-> "Standard conventional commit following the type"
                                  \o scopeStr \o ": description format"]
              ELSE IF variant = 1
              THEN [message |-> head \o replaceWord(safeDescription, "update", "improve"),
                    rationale |-> "Alternative wording emphasizing improvement over simple updates"]
              ELSE IF variant = 2
              THEN [message |-> head \o replaceWord(safeDescription, "update", "modify"),
                    rationale |-> "Variation using 'modify' to indicate careful, deliberate changes"]
              ELSE [message |-> head \o safeDescription,
                    rationale |-> "Standard conventional commit (variant "
                                  \o ToString(variant) \o ")"]
         [] styleArg = "semantic" ->
              IF variant = 0
              THEN [message |-> toUpperCase(safeType) \o ": " \o safeDescription,
                    rationale |-> "Uppercase semantic format for clear type identification"]
              ELSE IF variant = 1
              THEN [message |-> "[" \o safeType \o "] " \o safeDescription,
                    rationale |-> "Bracketed format popular in many open source projects"]
              ELSE [message |-> safeType \o ": " \o safeDescription,
                    rationale |-> "Simple semantic format (variant "
                                  \o ToString(variant) \o ")"]
         [] styleArg = "descriptive" ->
              IF variant = 0
              THEN [message |-> IF safeDescription # ""
                                THEN capitalize(safeDescription) ELSE "Update code",
                    rationale |-> "Natural language description focusing on what was actually changed"]
              ELSE IF variant = 1
              THEN LET replaced == replaceWord(safeDescription, "update", "refactor")
                       refactoredDesc == IF replaced # "" THEN replaced ELSE safeDescription
                   IN [message |-> IF refactoredDesc # ""
                                   THEN capitalize(refactoredDesc) ELSE "Refactor code",
                       rationale |-> "Action-focused message emphasizing the nature of the changes"]
              ELSE [message |-> capitalize(safeDescription),
                    rationale |-> "Descriptive format (variant "
                                  \o ToString(variant) \o ")"]
         [] OTHER ->
              [message |-> safeType \o ": " \o safeDescription,
               rationale |-> "Default format with basic type and description"]

\* the message and rationale of one style and variant
render(safeType, safeScope, safeDescription, styleArg, includeScopeArg, variant) ==
    LET scopeStr == IF includeScopeArg /\ safeScope # ""
                    THEN "(" \o safeScope \o ")" ELSE ""
        head == safeType \o scopeStr \o ": "
    IN CASE styleArg = "conventional" ->
              IF variant = 0
              THEN [message |-> head \o safeDescription,
                    rationale |-> "Standard conventional commit following the type"
                                  \o scopeStr \o ": description format"]
              ELSE IF variant = 1
              THEN [message |-> head \o replaceWord(safeDescription, "update", "improve"),
                    rationale |-> "Alternative wording emphasizing improvement over simple updates"]
              ELSE IF variant = 2
              THEN [message |-> head \o replaceWord(safeDescription, "update", "modify"),
                    rationale |-> "Variation using 'modify' to indicate careful, deliberate changes"]
              ELSE [message |-> head \o safeDescription,
                    rationale |-> "Standard conventional commit (variant "
                                  \o ToString(variant) \o ")"]
         [] styleArg = "semantic" ->
              IF variant = 0
              THEN [message |-> toUpperCase(safeType) \o ": " \o safeDescription,
                    rationale |-> "Uppercase semantic format for clear type identification"]
              ELSE IF variant = 1
              THEN [message |-> "[" \o safeType \o "] " \o safeDescription,
                    rationale |-> "Bracketed format popular in many open source projects"]
              ELSE [message |-> safeType \o ": " \o safeDescription,
                    rationale |-> "Simple semantic format (variant "
                                  \o ToString(variant) \o ")"]
         [] styleArg = "descriptive" ->
              IF variant = 0
              THEN [message |-> IF safeDescription # ""
                                THEN capitalize(safeDescription) ELSE "Update code",
                    rationale |-> "Natural language description focusing on what was actually changed"]
              ELSE IF variant = 1
              THEN LET replaced == replaceWord(safeDescription, "update", "refactor")
                       refactoredDesc == IF replaced # "" THEN replaced ELSE safeDescription
                   IN [message |-> IF refactoredDesc # ""
                                   THEN capitalize(refactoredDesc) ELSE "Refactor code",
                       rationale |-> "Action-focused message emphasizing the nature of the changes"]
              ELSE [message |-> capitalize(safeDescription),
                    rationale |-> "Descriptive format (variant "
                                  \o ToString(variant) \o ")"]
         [] OTHER ->
              [message |-> safeType \o ": " \o safeDescription,
               rationale |-> "Default format with basic type and description"]

\* the suggestion of the catch block
fallbackSuggestion(styleArg, variant, cause) ==
    [message |-> "Update code",
     type |-> "feat",
     scope |-> <<>>,
     rationale |-> "Fallback suggestion due to error: " \o cause,
     style |-> styleArg,
     example |-> commitCommand("Update code"),
     priority |-> priorityOf(variant),
     length |-> Len("Update code")]

\* an absent optional scope is <<>>, a present one <<scope>>
generateSuggestion(analysisArg, styleArg, includeScopeArg, variant) ==
    IF ~({"type", "description"} \subseteq DOMAIN analysisArg)
    THEN fallbackSuggestion(styleArg, variant, "Invalid analysis data provided")
    ELSE IF styleArg = ""
    THEN fallbackSuggestion(styleArg, variant, "Invalid style provided")
    ELSE IF variant < 0
    THEN fallbackSuggestion(styleArg, variant, "Invalid variant number")
    ELSE
    LET safeType == trim(toLowerCase(analysisArg.type))
        safeScope == IF analysisArg.scope # ""
                     THEN trim(toLowerCase(analysisArg.scope)) ELSE ""
        safeDescription == trim(analysisArg.description)
        text == render(safeType, safeScope, safeDescription, styleArg,
                       includeScopeArg, variant)
    IN [message |-> text.message,
        type |-> safeType,
        scope |-> IF includeScopeArg /\ safeScope # "" THEN <<safeScope>> ELSE <<>>,
        rationale |-> text.rationale,
        style |-> styleArg,
        example |-> commitCommand(text.message),
        priority |-> priorityOf(variant),
        length |-> Len(text.message)]

(***************************************************************************)
(* The responses generateCommitMessage returns.                            *)
(***************************************************************************)
ValidationError(message) == [name |-> "ValidationError", message |-> message]
GitOperationError(message) == [name |-> "GitOperationError", message |-> message]

\* mutant: the summary of the unstaged response pasted into the clean one
noChangesResponse_pasted(styleArg) ==
    [suggestions |-> <<[message |-> "No changes detected",
                        type |-> "none",
                        rationale |-> "No file changes found in the repository. Working directory is clean.",
                        style |-> styleArg,
                        priority |-> "primary",
                        length |-> 19]>>,
     summary |-> [totalSuggestions |-> 1,
                  filesChanged |-> 0,
                  changeTypes |-> <<"unstaged">>,
                  recommendedStyle |-> styleArg,
                  primarySuggestion |-> "No changes detected"],
     usage |-> [howToUse |-> "Stage your changes first, then generate commit messages",
                examples |-> <<"git add .", "# Then generate commit messages">>]]

noChangesResponse(styleArg) ==
    [suggestions |-> <<[message |-> "No changes detected",
                        type |-> "none",
                        rationale |-> "No file changes found in the repository. Working directory is clean.",
                        style |-> styleArg,
                        priority |-> "primary",
                        length |-> 19]>>,
     summary |-> [totalSuggestions |-> 1,
                  filesChanged |-> 0,
                  changeTypes |-> <<>>,
                  recommendedStyle |-> styleArg,
                  primarySuggestion |-> "No changes detected"],
     usage |-> [howToUse |-> "Make some changes to your files and stage them with 'git add .' before generating commit messages",
                examples |-> <<"# Make some changes first", "git add .",
                               "# Then generate commit messages">>]]

noStagedResponse(styleArg, st) ==
    [suggestions |-> <<[message |-> "No staged changes detected",
                        type |-> "none",
                        rationale |-> "Files have been modified but not staged for commit. Use 'git add' to stage changes first.",
                        style |-> styleArg,
                        priority |-> "primary",
                        length |-> 27]>>,
     summary |-> [totalSuggestions |-> 1,
                  filesChanged |-> Len(st.modified) + Len(st.not_added) + Len(st.deleted),
                  changeTypes |-> <<"unstaged">>,
                  recommendedStyle |-> styleArg,
                  primarySuggestion |-> "No staged changes detected"],
     usage |-> [howToUse |-> "Stage your changes first, then generate commit messages",
                examples |-> <<"git add .", "# Then generate commit messages",
                               "git add " \o (IF Len(st.not_added) > 0 THEN st.not_added[1]
                                              ELSE IF Len(st.modified) > 0 THEN st.modified[1]
                                              ELSE "specific-file.txt")>>]]

excludedOnlyResponse(styleArg, files) ==
    [suggestions |-> <<[message |-> "Only excluded files changed",
                        type |-> "chore",
                        rationale |-> "All changes are in excluded files (build artifacts, dependencies, etc.)",
                        style |-> styleArg,
                        priority |-> "primary",
                        length |-> 26]>>,
     summary |-> [totalSuggestions |-> 1,
                  filesChanged |-> Len(files),
                  changeTypes |-> <<"excluded">>,
                  recommendedStyle |-> styleArg,
                  primarySuggestion |-> "Only excluded files changed"],
     usage |-> [howToUse |-> "Consider if these changes should be committed or excluded",
                examples |-> <<"# If you want to commit these changes:",
                               commitCommand("Only excluded files changed"),
                               "# Or add them to .gitignore">>]]

validationErrorResponse(styleArg, err) ==
    [suggestions |-> <<[message |-> "Validation Error",
                        type |-> "error",
                        rationale |-> err.message,
                        style |-> styleArg,
                        priority |-> "primary",
                        length |-> 16]>>,
     summary |-> [totalSuggestions |-> 1,
                  filesChanged |-> 0,
                  changeTypes |-> <<"error">>,
                  recommendedStyle |-> styleArg,
                  primarySuggestion |-> "Validation Error"],
     usage |-> [howToUse |-> "Fix the validation error and try again",
                examples |-> <<"# Fix the issue mentioned above and retry">>]]

gitErrorResponse(styleArg, err) ==
    [suggestions |-> <<[message |-> "Git Operation Failed",
                        type |-> "error",
                        rationale |-> err.message,
                        style |-> styleArg,
                        priority |-> "primary",
                        length |-> 20]>>,
     summary |-> [totalSuggestions |-> 1,
                  filesChanged |-> 0,
                  changeTypes |-> <<"error">>,
                  recommendedStyle |-> styleArg,
                  primarySuggestion |-> "Git Operation Failed"],
     usage |-> [howToUse |-> "Check Git repository status and try again",
                examples |-> <<"git status", "git log --oneline -5",
                               "# Fix any Git issues and retry">>]]

\* mutant: any insertion makes the file an addition
summaryChangeType_anyInsertion(f) ==
    IF hasCounts(f)
    THEN IF f.insertions > 0 THEN "additions"
         ELSE IF f.deletions > 0 THEN "deletions"
         ELSE "modifications"
    ELSE "modifications"

\* the tag the response assembler gives one file (changeTypesList)
summaryChangeType(f) ==
    IF hasCounts(f)
    THEN IF f.insertions > 0 /\ f.deletions = 0 THEN "additions"
         ELSE IF f.deletions > 0 /\ f.insertions = 0 THEN "deletions"
         ELSE "modifications"
    ELSE "modifications"

\* mutant: the summary names the last suggestion as the primary one
assembledResponse_lastPrimary(styleArg, files, sugg) ==
    LET primarySuggestion == sugg[Len(sugg)].message
    IN [suggestions |-> sugg,
        summary |-> [totalSuggestions |-> Len(sugg),
                     filesChanged |-> Len(files),
                     changeTypes |-> Distinct([k \in 1..Len(files) |->
                                                  summaryChangeType(files[k])]),
                     recommendedStyle |-> styleArg,
                     primarySuggestion |-> primarySuggestion],
        usage |-> [howToUse |-> "Copy one of the suggested commit messages and use: "
                                \o commitCommand(primarySuggestion),
                   examples |-> <<commitCommand(primarySuggestion),
                                  "git add . && " \o commitCommand(primarySuggestion)>>
                                \o (IF Len(sugg) > 1
                                    THEN <<commitCommand(sugg[2].message)>>
                                    ELSE <<>>)]]

assembledResponse(styleArg, files, sugg) ==
    LET primarySuggestion == IF sugg[1].message # "" THEN sugg[1].message
                             ELSE "Update code"
    IN [suggestions |-> sugg,
        summary |-> [totalSuggestions |-> Len(sugg),
                     filesChanged |-> Len(files),
                     changeTypes |-> Distinct([k \in 1..Len(files) |->
                                                  summaryChangeType(files[k])]),
                     recommendedStyle |-> styleArg,
                     primarySuggestion |-> primarySuggestion],
        usage |-> [howToUse |-> "Copy one of the suggested commit messages and use: "
                                \o commitCommand(primarySuggestion),
                   examples |-> <<commitCommand(primarySuggestion),
                                  "git add . && " \o commitCommand(primarySuggestion)>>
                                \o (IF Len(sugg) > 1
                                    THEN <<commitCommand(sugg[2].message)>>
                                    ELSE <<>>)]]

(***************************************************************************)
(* The inputs: parameters and repository states.                           *)
(***************************************************************************)
\* the entries git.diffSummary reports for one path: a text entry carries
\* insertions and deletions, a binary entry carries neither
FileVariants(path) ==
    {[file |-> path, changes |-> a + b, insertions |-> a, deletions |-> b,
      binary |-> FALSE] : a \in 0..MaxLines, b \in 0..MaxLines}
    \cup {[file |-> path, binary |-> TRUE]}

RECURSIVE ChangeSetsOf(_)
ChangeSetsOf(paths) ==
    IF paths = <<>> THEN {<<>>}
    ELSE {<<v>> \o rest : v \in FileVariants(paths[1]),
                          rest \in ChangeSetsOf(Tail(paths))}

RECURSIVE SubLists(_)
SubLists(paths) ==
    IF paths = <<>> THEN {<<>>}
    ELSE LET rest == SubLists(Tail(paths))
         IN rest \cup {<<paths[1]>> \o x : x \in rest}

\* what git.status() reports. Its lists are read only when the staged diff
\* summary is empty; staged may then still name a file, the two queries
\* being separate reads of the repository.
StatusesFor(files) ==
    IF files = <<>>
    THEN {[staged |-> s, modified |-> m, not_added |-> n, deleted |-> d] :
             s \in {<<>>, <<"src/late.ts">>},
             m \in {<<>>, <<"src/app.ts">>},
             n \in {<<>>, <<"notes.txt">>},
             d \in {<<>>, <<"old.ts">>}}
    ELSE {[staged |-> [k \in 1..Len(files) |-> files[k].file],
           modified |-> <<>>, not_added |-> <<>>, deleted |-> <<>>]}

\* the staged change sets: every choice of entries for every sub-list
ChangeSets(pathLists) ==
    UNION {ChangeSetsOf(sub) : sub \in UNION {SubLists(l) : l \in pathLists}}

\* a directory that does not exist, one that is no repository, and the
\* repositories whose staged change set is drawn from the path lists
ReposOf(pathLists) ==
    {[exists |-> FALSE, isRepo |-> FALSE, files |-> <<>>, status |-> <<>>],
     [exists |-> TRUE, isRepo |-> FALSE, files |-> <<>>, status |-> <<>>]}
    \cup UNION {{[exists |-> TRUE, isRepo |-> TRUE, files |-> fs, status |-> st] :
                    st \in StatusesFor(fs)} : fs \in ChangeSets(pathLists)}

\* path lists in the order git reports them (sorted by path)
MainPathLists ==
    {<<"README.md", "docs/api.md">>,
     <<"src/auth/login.ts", "src/auth/register.ts">>,
     <<"bun.lock", "dist/bundle.js">>,
     <<"dist/bundle.js", "src/auth/login.ts">>,
     <<"Dist/app.js", "src/redistribute.ts">>}

RootDirs == {"", "/work/project"}

\* maxSuggestions as a caller may pass it: the valid range and one beyond
\* each end
MaxSuggestionsInputs == (MinSuggestions - 1)..(MaxSuggestions + 1)

InitWith(pathLists) ==
    /\ rootDir \in RootDirs
    /\ style \in Styles
    /\ maxSuggestions \in MaxSuggestionsInputs
    /\ includeScope \in BOOLEAN
    /\ repo \in ReposOf(pathLists)
    /\ pc = "start"
    /\ calls = {}
    /\ status = <<>>
    /\ summary = <<>>
    /\ changedFiles = <<>>
    /\ analysis = <<>>
    /\ suggestions = <<>>
    /\ loopI = 0
    /\ error = <<>>
    /\ response = <<>>
    /\ diffs = <<>>

Init == InitWith(MainPathLists)

(***************************************************************************)
(* generateCommitMessage, step by step.                                    *)
(***************************************************************************)
params == <<rootDir, style, maxSuggestions, includeScope, repo>>

\* throw err: control passes to the catch block
Throw(err) ==
    /\ error' = <<err>>
    /\ pc' = "catch"

\* return value
Return(value) ==
    /\ response' = <<value>>
    /\ pc' = "done"

\* mutant: the upper limit is not checked
outOfRange_lowOnly(n) == n < MinSuggestions

\* maxSuggestions < 1 || maxSuggestions > 5
outOfRange(n) == n < MinSuggestions \/ n > MaxSuggestions

\* lines 209-216: the parameter checks
ValidateParams ==
    /\ pc = "start"
    /\ IF rootDir = ""
       THEN Throw(ValidationError("Root directory must be a non-empty string"))
       ELSE IF outOfRange(maxSuggestions)
       THEN Throw(ValidationError("Maximum suggestions must be between 1 and 5"))
       ELSE pc' = "exists" /\ UNCHANGED error
    /\ UNCHANGED <<params, diffs, calls, status, summary, changedFiles, analysis,
                   suggestions, loopI, response>>

\* mutant: the existence check is left out
CheckExists_skipped ==
    /\ pc = "exists"
    /\ pc' = "isRepo"
    /\ UNCHANGED <<params, diffs, calls, status, summary, changedFiles, analysis,
                   suggestions, loopI, error, response>>

\* validateGitRepository: existsSync(resolve(rootDir))
CheckExists ==
    /\ pc = "exists"
    /\ calls' = calls \cup {"existsSync"}
    /\ IF ~repo.exists
       THEN Throw(ValidationError("Directory does not exist: " \o rootDir))
       ELSE pc' = "isRepo" /\ UNCHANGED error
    /\ UNCHANGED <<params, diffs, status, summary, changedFiles, analysis,
                   suggestions, loopI, response>>

\* validateGitRepository: await git.checkIsRepo(). The promise resolves to a
\* boolean the code does not read; only a rejection reaches the catch block.
\* On a directory that is no repository the check answers false or fails.
CheckIsRepo ==
    /\ pc = "isRepo"
    /\ calls' = calls \cup {"checkIsRepo"}
    /\ \E rejects \in (IF repo.isRepo THEN {FALSE} ELSE BOOLEAN) :
          IF rejects
          THEN Throw(ValidationError("Directory is not a Git repository: " \o rootDir
                        \o ". Initialize with 'git init' first."))
          ELSE pc' = "query" /\ UNCHANGED error
    /\ UNCHANGED <<params, diffs, status, summary, changedFiles, analysis,
                   suggestions, loopI, response>>

\* what the failing git command reports
gitFailure == IF repo.isRepo THEN "fatal: index file corrupt"
              ELSE "fatal: not a git repository (or any of the parent directories): .git"

\* mutant: the cause is not carried into the message
statusError_noCause(cause) ==
    GitOperationError("Failed to get Git status for " \o rootDir)

\* the error safeGetGitStatus throws from its catch block
statusError(cause) ==
    GitOperationError("Failed to get Git status for " \o rootDir \o ": " \o cause)

\* safeGetGitStatus: Promise.all([git.status(), git.diffSummary(["--cached"])])
\* starts both queries before it awaits either
IssueQueries ==
    /\ pc = "query"
    /\ calls' = calls \cup {"status", "diffSummary"}
    /\ pc' = "await"
    /\ UNCHANGED <<params, diffs, status, summary, changedFiles, analysis, suggestions,
                   loopI, error, response>>

\* mutant: the status query is not waited for
awaited_summaryOnly(st, sm) == IF sm # <<>> THEN "dispatch" ELSE "await"

\* both results are in: safeGetGitStatus returns { status, summary }
awaited(st, sm) == IF st # <<>> /\ sm # <<>> THEN "dispatch" ELSE "await"

\* git.status() completes; it fails outside a repository and may fail in one
StatusCompletes ==
    /\ pc = "await"
    /\ status = <<>>
    /\ \E fails \in (IF repo.isRepo THEN BOOLEAN ELSE {TRUE}) :
          IF fails
          THEN Throw(statusError(gitFailure)) /\ UNCHANGED status
          ELSE /\ status' = <<repo.status>>
               /\ pc' = awaited(status', summary)
               /\ UNCHANGED error
    /\ UNCHANGED <<params, diffs, calls, summary, changedFiles, analysis, suggestions,
                   loopI, response>>

\* git.diffSummary(["--cached"]) completes
DiffSummaryCompletes ==
    /\ pc = "await"
    /\ summary = <<>>
    /\ \E fails \in (IF repo.isRepo THEN BOOLEAN ELSE {TRUE}) :
          IF fails
          THEN Throw(statusError(gitFailure)) /\ UNCHANGED summary
          ELSE /\ summary' = <<[files |-> repo.files]>>
               /\ pc' = awaited(status, summary')
               /\ UNCHANGED error
    /\ UNCHANGED <<params, diffs, calls, status, changedFiles, analysis, suggestions,
                   loopI, response>>

\* mutant: the deleted list is not looked at
cleanTree_noDeleted(st) ==
    /\ Len(st.staged) = 0
    /\ Len(st.modified) = 0
    /\ Len(st.not_added) = 0

\* status.staged, modified, not_added and deleted are all empty
cleanTree(st) ==
    /\ Len(st.staged) = 0
    /\ Len(st.modified) = 0
    /\ Len(st.not_added) = 0
    /\ Len(st.deleted) = 0

\* lines 226-333: the terminal responses for an empty or all-excluded change
\* set, else on to the analysis
CheckChanges ==
    /\ pc = "dispatch"
    /\ LET files == summary[1].files
           included == filterExcluded(files)
       IN IF Len(files) = 0
          THEN /\ Return(IF cleanTree(status[1]) THEN noChangesResponse(style)
                         ELSE noStagedResponse(style, status[1]))
               /\ UNCHANGED changedFiles
          ELSE /\ changedFiles' = included
               /\ IF Len(included) = 0
                  THEN Return(excludedOnlyResponse(style, files))
                  ELSE pc' = "analyze" /\ UNCHANGED response
    /\ UNCHANGED <<params, diffs, calls, status, summary, analysis, suggestions, loopI,
                   error>>

\* line 336
Analyze ==
    /\ pc = "analyze"
    /\ calls' = calls \cup {"analyzeChanges"}
    /\ analysis' = <<analyzeChanges(changedFiles)>>
    /\ pc' = "loop"
    /\ UNCHANGED <<params, diffs, status, summary, changedFiles, suggestions, loopI,
                   error, response>>

\* mutant: the loop runs one iteration too many
loopContinues_inclusive(n, max) == n <= max

\* i < maxSuggestions
loopContinues(n, max) == n < max

\* mutant: a variant that fell back is left out
Synthesize_skipsFailed ==
    /\ pc = "loop"
    /\ loopContinues(loopI, maxSuggestions)
    /\ calls' = calls \cup {"generateSuggestion"}
    /\ suggestions' =
          LET s == generateSuggestion(analysis[1], style, includeScope, loopI)
          IN IF includes(s.rationale, "Fallback suggestion") THEN suggestions
             ELSE Append(suggestions, s)
    /\ loopI' = loopI + 1
    /\ UNCHANGED <<params, diffs, pc, status, summary, changedFiles, analysis, error,
                   response>>

\* lines 339-352: one iteration of the loop
Synthesize ==
    /\ pc = "loop"
    /\ loopContinues(loopI, maxSuggestions)
    /\ calls' = calls \cup {"generateSuggestion"}
    /\ suggestions' = Append(suggestions,
                             generateSuggestion(analysis[1], style, includeScope, loopI))
    /\ loopI' = loopI + 1
    /\ UNCHANGED <<params, diffs, pc, status, summary, changedFiles, analysis, error,
                   response>>

\* lines 354-396: after the loop
Assemble ==
    /\ pc = "loop"
    /\ ~loopContinues(loopI, maxSuggestions)
    /\ IF Len(suggestions) = 0
       THEN /\ Throw(GitOperationError("Failed to generate any commit message suggestions"))
            /\ UNCHANGED response
       ELSE /\ Return(assembledResponse(style, changedFiles, suggestions))
            /\ UNCHANGED error
    /\ UNCHANGED <<params, diffs, calls, status, summary, changedFiles, analysis,
                   suggestions, loopI>>

\* lines 397-458: the catch block; an error of another kind is thrown on
Catch ==
    /\ pc = "catch"
    /\ IF error[1].name = "ValidationError"
       THEN Return(validationErrorResponse(style, error[1]))
       ELSE IF error[1].name = "GitOperationError"
       THEN Return(gitErrorResponse(style, error[1]))
       ELSE pc' = "thrown" /\ UNCHANGED response
    /\ UNCHANGED <<params, diffs, calls, status, summary, changedFiles, analysis,
                   suggestions, loopI, error>>

Next ==
    \/ ValidateParams
    \/ CheckExists
    \/ CheckIsRepo
    \/ IssueQueries
    \/ StatusCompletes
    \/ DiffSummaryCompletes
    \/ CheckChanges
    \/ Analyze
    \/ Synthesize
    \/ Assemble
    \/ Catch

Spec == Init /\ [][Next]_vars

(***************************************************************************)
(* Properties.                                                             *)
(***************************************************************************)
Returned == response # <<>>
Resp == response[1]
Paths(files) == [k \in 1..Len(files) |-> files[k].file]
ValidParams == rootDir # "" /\ maxSuggestions \in MinSuggestions..MaxSuggestions
\* both queries answered: the call got past safeGetGitStatus
Queried == status # <<>> /\ summary # <<>>
\* the call went through the loop and the assembly
NormalPath == Returned /\ analysis # <<>>
\* a path holds one of the exclusion markers as a substring
HoldsMarker(path) ==
    \E m \in {"dist", "bun.lock", ".DS_Store", "node_modules"} : includes(path, m)

\* C1: in every response returned, each suggestion's length field is the
\* number of characters of its message.
C1_LengthIsMessageLength ==
    Returned =>
        \A k \in 1..Len(Resp.suggestions) :
            Resp.suggestions[k].length = Len(Resp.suggestions[k].message)

\* C2: for a non-empty rootDir and maxSuggestions in 1..5, whatever the style
\* and the repository, the call ends by returning a response, and the
\* response holds at least 1 and at most maxSuggestions suggestions.
C2_SuggestionCountInRange ==
    ValidParams =>
        /\ (pc = "done") = Returned
        /\ Returned => /\ Len(Resp.suggestions) >= 1
                       /\ Len(Resp.suggestions) <= maxSuggestions

\* a normal-path response with the five suggestions asked for
C2_Witness ==
    /\ NormalPath
    /\ maxSuggestions = MaxSuggestions
    /\ Len(Resp.suggestions) = MaxSuggestions

\* C3: in every response, suggestions[0] is primary and every later
\* suggestion is alternative.
C3_PrimaryThenAlternatives ==
    Returned =>
        /\ Len(Resp.suggestions) >= 1
        /\ Resp.suggestions[1].priority = "primary"
        /\ \A k \in 2..Len(Resp.suggestions) :
              Resp.suggestions[k].priority = "alternative"

C3_Witness == NormalPath /\ Len(Resp.suggestions) >= 3

\* C5: staged set {src/auth/login.ts, src/auth/register.ts}, conventional
\* style, includeScope true: the variant-0 message is
\* 'refactor(auth): restructure code' when one file is net-added and the
\* other net-deleted, 'refactor(auth): update implementation' when both
\* files have insertions and deletions.
NetAdded(f) == ~f.binary /\ f.insertions > 0 /\ f.deletions = 0
NetDeleted(f) == ~f.binary /\ f.deletions > 0 /\ f.insertions = 0
Mixed(f) == ~f.binary /\ f.insertions > 0 /\ f.deletions > 0
AuthPair ==
    /\ NormalPath
    /\ Paths(summary[1].files) = <<"src/auth/login.ts", "src/auth/register.ts">>
    /\ style = "conventional"
    /\ includeScope
AuthPairMoved ==
    LET f == summary[1].files
    IN \/ NetAdded(f[1]) /\ NetDeleted(f[2])
       \/ NetDeleted(f[1]) /\ NetAdded(f[2])

C5_AuthScopeMessages ==
    AuthPair =>
        LET f == summary[1].files
        IN /\ AuthPairMoved =>
                Resp.suggestions[1].message = "refactor(auth): restructure code"
           /\ (Mixed(f[1]) /\ Mixed(f[2])) =>
                Resp.suggestions[1].message = "refactor(auth): update implementation"

C5_Witness == AuthPair /\ AuthPairMoved

\* C6: staged set exactly {README.md, docs/api.md}, whatever the counts:
\* the variant-0 conventional message is 'docs: update documentation', with
\* no scope, also when includeScope is true.
DocsPair ==
    /\ NormalPath
    /\ Paths(summary[1].files) = <<"README.md", "docs/api.md">>
    /\ style = "conventional"

C6_DocsMessage ==
    DocsPair =>
        /\ Resp.suggestions[1].message = "docs: update documentation"
        /\ Resp.suggestions[1].scope = <<>>

C6_Witness == DocsPair /\ includeScope

\* C7: the queries answered, the staged change set non-empty and every path
\* in it holding an exclusion marker: no aggregation and no synthesis take
\* place, and the response is the single suggestion 'Only excluded files
\* changed' of type 'chore'.
OnlyExcluded ==
    /\ Queried
    /\ Len(summary[1].files) > 0
    /\ \A k \in 1..Len(summary[1].files) : HoldsMarker(summary[1].files[k].file)

C7_OnlyExcludedResponse ==
    OnlyExcluded =>
        /\ calls \cap {"analyzeChanges", "generateSuggestion"} = {}
        /\ analysis = <<>> /\ suggestions = <<>>
        /\ pc \in {"dispatch", "done"}
        /\ (pc = "done") = Returned
        /\ Returned =>
              /\ Len(Resp.suggestions) = 1
              /\ Resp.suggestions[1].message = "Only excluded files changed"
              /\ Resp.suggestions[1].type = "chore"

\* a marker in the middle of a path excludes it too
C7_Witness ==
    /\ OnlyExcluded
    /\ Returned
    /\ Paths(summary[1].files) = <<"src/redistribute.ts">>

\* C8: the staged diff summary empty and the status lists staged, modified,
\* not_added and deleted all empty: the response is the single suggestion
\* 'No changes detected' of type 'none', with filesChanged 0 and no
\* changeTypes.
NothingChanged ==
    /\ Queried
    /\ summary[1].files = <<>>
    /\ status[1].staged = <<>>
    /\ status[1].modified = <<>>
    /\ status[1].not_added = <<>>
    /\ status[1].deleted = <<>>

C8_NoChangesResponse ==
    NothingChanged =>
        /\ pc \in {"dispatch", "done"}
        /\ (pc = "done") = Returned
        /\ Returned =>
              /\ Len(Resp.suggestions) = 1
              /\ Resp.suggestions[1].message = "No changes detected"
              /\ Resp.suggestions[1].type = "none"
              /\ Resp.summary.filesChanged = 0
              /\ Resp.summary.changeTypes = <<>>

C8_Witness == NothingChanged /\ Returned

\* C9: nothing staged, and a file modified, untracked or deleted in the
\* working tree: the response is the single suggestion 'No staged changes
\* detected' of type 'none' with changeTypes ["unstaged"], and the unstaged
\* files are not classified.
OnlyUnstaged ==
    /\ Queried
    /\ summary[1].files = <<>>
    /\ status[1].staged = <<>>
    /\ \/ status[1].modified # <<>>
       \/ status[1].not_added # <<>>
       \/ status[1].deleted # <<>>

C9_NoStagedResponse ==
    OnlyUnstaged =>
        /\ calls \cap {"analyzeChanges", "generateSuggestion"} = {}
        /\ analysis = <<>>
        /\ pc \in {"dispatch", "done"}
        /\ (pc = "done") = Returned
        /\ Returned =>
              /\ Len(Resp.suggestions) = 1
              /\ Resp.suggestions[1].message = "No staged changes detected"
              /\ Resp.suggestions[1].type = "none"
              /\ Resp.summary.changeTypes = <<"unstaged">>

\* only a deletion in the working tree
C9_Witness ==
    /\ OnlyUnstaged
    /\ Returned
    /\ status[1].modified = <<>>
    /\ status[1].not_added = <<>>

\* C10: a non-empty rootDir and maxSuggestions outside 1..5, whatever the
\* repository: no repository query is issued, nothing is thrown on to the
\* caller, and the response is the single suggestion 'Validation Error' of
\* type 'error' whose rationale states the range 'between 1 and 5'.
BadMaxSuggestions ==
    /\ rootDir # ""
    /\ (maxSuggestions < 1 \/ maxSuggestions > 5)

C10_InvalidMaxSuggestions ==
    BadMaxSuggestions =>
        /\ calls = {}
        /\ pc \in {"start", "catch", "done"}
        /\ (pc = "done") = Returned
        /\ Returned =>
              /\ Len(Resp.suggestions) = 1
              /\ Resp.suggestions[1].type = "error"
              /\ Resp.suggestions[1].message = "Validation Error"
              /\ includes(Resp.suggestions[1].rationale, "between 1 and 5")

\* six suggestions asked of a repository with staged, included files
C10_Witness ==
    /\ BadMaxSuggestions
    /\ Returned
    /\ maxSuggestions = 6
    /\ repo.isRepo
    /\ filterExcluded(repo.files) # <<>>

\* C11: a rootDir that does not exist, the parameters otherwise valid:
\* nothing is thrown on to the caller, no git command is run, and the
\* response is a single suggestion of type 'error' whose rationale holds
\* 'does not exist', with filesChanged 0.
MissingDir == ValidParams /\ ~repo.exists

C11_MissingDirectory ==
    MissingDir =>
        /\ calls \subseteq {"existsSync"}
        /\ pc \in {"start", "exists", "catch", "done"}
        /\ (pc = "done") = Returned
        /\ Returned =>
              /\ Len(Resp.suggestions) = 1
              /\ Resp.suggestions[1].type = "error"
              /\ includes(Resp.suggestions[1].rationale, "does not exist")
              /\ Resp.summary.filesChanged = 0

C11_Witness == MissingDir /\ Returned

\* C12: a rootDir that exists and is no repository, the parameters otherwise
\* valid: the status queries are never issued and the response is the
\* 'Validation Error' suggestion of type 'error' whose rationale holds
\* 'not a Git repository', whether the repository check fails or answers
\* false.
PlainDir == ValidParams /\ repo.exists /\ ~repo.isRepo

C12_NotARepository ==
    PlainDir =>
        /\ calls \cap {"status", "diffSummary"} = {}
        /\ Returned =>
              /\ Resp.suggestions[1].message = "Validation Error"
              /\ Resp.suggestions[1].type = "error"
              /\ includes(Resp.suggestions[1].rationale, "not a Git repository")

\* C13: every conventional message of the normal path matches
\* ^[a-z]+(\([\w-]+\))?: .+$ : a type of lower-case letters, an optional
\* parenthesised scope of word characters and hyphens, ': ' and a text,
\* whatever directory the scope was derived from.
\* the length of the longest prefix of s whose characters satisfy the class
RECURSIVE RunLength(_, _)
RunLength(s, class) ==
    IF s # "" /\ includes(class, Head(s)) THEN 1 + RunLength(Tail(s), class) ELSE 0

ScopeChars == UpperLetters \o LowerLetters \o Digits \o "_-"

\* s matches ': .+$'
MatchesColonText(s) ==
    /\ startsWith(s, ": ")
    /\ Len(s) > 2
    /\ ~includes(s, "\n")

MatchesConventional(message) ==
    LET t == RunLength(message, LowerLetters)
        afterType == SubSeq(message, t + 1, Len(message))
        inner == Tail(afterType)
        n == RunLength(inner, ScopeChars)
    IN /\ t >= 1
       /\ \/ MatchesColonText(afterType)
          \/ /\ startsWith(afterType, "(")
             /\ n >= 1
             /\ charAt(inner, n + 1) = ")"
             /\ MatchesColonText(SubSeq(inner, n + 2, Len(inner)))

\* directories whose names are not made of word characters and hyphens
ScopePathLists ==
    {<<".vscode/settings.json">>,
     <<"my.app/index.ts", "my.app/view.ts">>,
     <<"web-ui/app.ts", "web-ui/view.ts">>}

SpecScopes == InitWith(ScopePathLists) /\ [][Next]_vars

C13_ConventionalFormat ==
    (NormalPath /\ style = "conventional") =>
        \A k \in 1..Len(Resp.suggestions) :
            MatchesConventional(Resp.suggestions[k].message)

\* C16: in every response returned, summary.totalSuggestions is the number
\* of suggestions, summary.primarySuggestion is the first suggestion's
\* message and summary.recommendedStyle is the requested style.
C16_SummaryAgreesWithSuggestions ==
    Returned =>
        /\ Resp.summary.totalSuggestions = Len(Resp.suggestions)
        /\ Resp.summary.primarySuggestion = Resp.suggestions[1].message
        /\ Resp.summary.recommendedStyle = style

C16_Witness ==
    /\ NormalPath
    /\ style = "semantic"
    /\ Len(Resp.suggestions) = 3
    /\ Resp.suggestions[3].message # Resp.suggestions[1].message

\* the changed files whose path holds no exclusion marker
NonExcluded(files) == {k \in 1..Len(files) : ~HoldsMarker(files[k].file)}

\* a response built from a non-empty staged change set
FromStagedSet == Returned /\ Queried /\ error = <<>> /\ Len(summary[1].files) > 0

\* C17, as stated: for every response built from a non-empty staged change
\* set, the excluded-only one included, summary.filesChanged is the number
\* of changed files whose path holds no exclusion marker.
C17_FilesChangedNonExcluded ==
    FromStagedSet =>
        Resp.summary.filesChanged = Cardinality(NonExcluded(summary[1].files))

\* C17, amended: in a normal-path response summary.filesChanged is the
\* number of changed files whose path holds no exclusion marker; in the
\* excluded-only response it is the raw number of changed files.
C17_FilesChanged ==
    FromStagedSet =>
        Resp.summary.filesChanged =
            IF NonExcluded(summary[1].files) = {}
            THEN Len(summary[1].files)
            ELSE Cardinality(NonExcluded(summary[1].files))

\* both cases: a mixed change set, or one of two excluded files
C17_Witness ==
    /\ FromStagedSet
    /\ Len(summary[1].files) = 2
    /\ NonExcluded(summary[1].files) = {}
    /\ Resp.summary.filesChanged = 2

\* the per-file tag in the aggregator's vocabulary and in the summary's
SingularTag(f) == IF NetAdded(f) THEN "addition"
                  ELSE IF NetDeleted(f) THEN "deletion"
                  ELSE "modification"
PluralTag(f) == SingularTag(f) \o "s"

\* C18, as stated: in a normal-path response summary.changeTypes is the set
\* of the included files' tags in the aggregator's vocabulary
\* {addition, deletion, modification}.
C18_ChangeTypesSingular ==
    NormalPath =>
        Range(Resp.summary.changeTypes) =
            {SingularTag(changedFiles[k]) : k \in 1..Len(changedFiles)}

\* C18, amended: summary.changeTypes lists, without repetition, the included
\* files' tags in the vocabulary {additions, deletions, modifications}
\* (insertions>0 and deletions=0: additions; deletions>0 and insertions=0:
\* deletions; anything else, binary and 0/0 files included: modifications),
\* while the aggregator's changeTypes uses {addition, deletion, modification}
\* under the same rule.
C18_ChangeTypes ==
    NormalPath =>
        /\ Range(Resp.summary.changeTypes) =
              {PluralTag(changedFiles[k]) : k \in 1..Len(changedFiles)}
        /\ Len(Resp.summary.changeTypes) =
              Cardinality(Range(Resp.summary.changeTypes))
        /\ Range(analysis[1].changeTypes) =
              {SingularTag(changedFiles[k]) : k \in 1..Len(changedFiles)}

C18_Witness ==
    /\ NormalPath
    /\ \E k \in 1..Len(changedFiles) : Mixed(changedFiles[k])
    /\ \E k \in 1..Len(changedFiles) : NetAdded(changedFiles[k])
    /\ Range(Resp.summary.changeTypes) = {"additions", "modifications"}

\* a query of safeGetGitStatus has failed
QueryFailed == error # <<>> /\ calls \cap {"status", "diffSummary"} # {}

\* C19: the status query or the staged diff-summary query fails: no
\* exception leaves generateCommitMessage, no aggregation or synthesis takes
\* place, and the response is the single suggestion 'Git Operation Failed'
\* of type 'error' whose rationale carries the failure's message, with
\* filesChanged 0.
C19_GitOperationFailed ==
    QueryFailed =>
        /\ pc \in {"catch", "done"}
        /\ (pc = "done") = Returned
        /\ calls \cap {"analyzeChanges", "generateSuggestion"} = {}
        /\ analysis = <<>> /\ suggestions = <<>>
        /\ Returned =>
              /\ Len(Resp.suggestions) = 1
              /\ Resp.suggestions[1].message = "Git Operation Failed"
              /\ Resp.suggestions[1].type = "error"
              /\ includes(Resp.suggestions[1].rationale, gitFailure)
              /\ Resp.summary.filesChanged = 0

\* the status query answered and the diff-summary query failed
C19_Witness == QueryFailed /\ Returned /\ repo.isRepo /\ status # <<>>

\* the messages of the response are pairwise distinct
DistinctMessages ==
    \A j, k \in 1..Len(Resp.suggestions) :
        j < k => Resp.suggestions[j].message # Resp.suggestions[k].message

\* C15, as stated: the suggestions of one normal-path response have pairwise
\* distinct messages, for every classification, style and count.
C15_PairwiseDistinct == NormalPath => DistinctMessages

\* C15, amended: the messages are pairwise distinct exactly when there is
\* one suggestion, or the style is semantic with at most three, or the
\* description holds the word 'update' and the style is conventional with at
\* most three or descriptive with at most two. Beyond that the variants
\* repeat: conventional variants 3 and 4 and descriptive variants 2 to 4
\* render as variant 0, semantic variants 3 and 4 as variant 2, and without
\* 'update' conventional variants 1 and 2 and descriptive variant 1 render
\* as variant 0.
C15_DistinctUpToVariants ==
    NormalPath =>
        LET n == Len(Resp.suggestions)
            m == [k \in 1..n |-> Resp.suggestions[k].message]
            upd == includes(analysis[1].description, "update")
        IN /\ DistinctMessages <=>
                 \/ n = 1
                 \/ style = "semantic" /\ n <= 3
                 \/ style = "conventional" /\ n <= 3 /\ upd
                 \/ style = "descriptive" /\ n <= 2 /\ upd
           /\ \A k \in 4..n : m[k] = (IF style = "semantic" THEN m[3] ELSE m[1])
           /\ (style = "descriptive" /\ n >= 3) => m[3] = m[1]
           /\ (style # "semantic" /\ ~upd) => \A k \in 1..n : m[k] = m[1]

\* five conventional suggestions: the first three differ, the fourth repeats
\* the first
C15_Witness ==
    /\ NormalPath
    /\ style = "conventional"
    /\ Len(Resp.suggestions) = 5
    /\ Cardinality({Resp.suggestions[k].message : k \in 1..3}) = 3
    /\ Resp.suggestions[4].message = Resp.suggestions[1].message

(***************************************************************************)
(* getFileChangesInDirectory, step by step.                                *)
(***************************************************************************)
\* path list in the order git reports it, an excluded path in the middle
AccessPaths == <<"docs/api.md", "node_modules/x/index.js", "src/app.ts">>

\* an entry of a diff summary
AccessEntry(path) ==
    [file |-> path, changes |-> 1, insertions |-> 1, deletions |-> 0,
     binary |-> FALSE]

AccessSets ==
    {[k \in 1..Len(sub) |-> AccessEntry(sub[k])] : sub \in SubLists(AccessPaths)}

\* repository states with an index (files: what git diff --cached reports)
\* and a working tree (unstaged: what git diff reports)
AccessRepos ==
    {[exists |-> FALSE, isRepo |-> FALSE, files |-> <<>>, status |-> <<>>,
      unstaged |-> <<>>],
     [exists |-> TRUE, isRepo |-> FALSE, files |-> <<>>, status |-> <<>>,
      unstaged |-> <<>>]}
    \cup {[exists |-> TRUE, isRepo |-> TRUE, files |-> st,
           status |-> [staged |-> [k \in 1..Len(st) |-> st[k].file],
                       modified |-> [k \in 1..Len(un) |-> un[k].file],
                       not_added |-> <<>>, deleted |-> <<>>],
           unstaged |-> un] : st \in AccessSets, un \in AccessSets}

\* a call of either operation, generateCommitMessage with two suggestions
InitAccess ==
    /\ rootDir \in RootDirs
    /\ style = "conventional"
    /\ maxSuggestions = MinSuggestions + 1
    /\ includeScope = TRUE
    /\ repo \in AccessRepos
    /\ pc \in {"start", "fc_start"}
    /\ calls = {}
    /\ status = <<>>
    /\ summary = <<>>
    /\ changedFiles = <<>>
    /\ analysis = <<>>
    /\ suggestions = <<>>
    /\ loopI = 0
    /\ error = <<>>
    /\ response = <<>>
    /\ diffs = <<>>

\* throw err inside the try block of getFileChangesInDirectory
FcThrow(err) ==
    /\ error' = <<err>>
    /\ pc' = "fc_catch"

\* lines 119-121
FcValidateParams ==
    /\ pc = "fc_start"
    /\ IF rootDir = ""
       THEN FcThrow(ValidationError("Root directory must be a non-empty string"))
       ELSE pc' = "fc_exists" /\ UNCHANGED error
    /\ UNCHANGED <<params, diffs, calls, status, summary, changedFiles, analysis,
                   suggestions, loopI, response>>

\* line 124, validateGitRepository: existsSync(resolve(rootDir))
FcCheckExists ==
    /\ pc = "fc_exists"
    /\ calls' = calls \cup {"existsSync"}
    /\ IF ~repo.exists
       THEN FcThrow(ValidationError("Directory does not exist: " \o rootDir))
       ELSE pc' = "fc_isRepo" /\ UNCHANGED error
    /\ UNCHANGED <<params, diffs, status, summary, changedFiles, analysis,
                   suggestions, loopI, response>>

\* line 124, validateGitRepository: await git.checkIsRepo()
FcCheckIsRepo ==
    /\ pc = "fc_isRepo"
    /\ calls' = calls \cup {"checkIsRepo"}
    /\ \E rejects \in (IF repo.isRepo THEN {FALSE} ELSE BOOLEAN) :
          IF rejects
          THEN FcThrow(ValidationError("Directory is not a Git repository: " \o rootDir
                          \o ". Initialize with 'git init' first."))
          ELSE pc' = "fc_staged" /\ UNCHANGED error
    /\ UNCHANGED <<params, diffs, status, summary, changedFiles, analysis,
                   suggestions, loopI, response>>

\* the error thrown from the catch block of lines 138-143
summaryError(cause) ==
    GitOperationError("Failed to get diff summary for " \o rootDir \o ": " \o cause)

\* mutant: the staged summary is used even when it is empty
needsFallback_never(sm) == FALSE

\* summary.files.length === 0
needsFallback(sm) == Len(sm.files) = 0

\* line 132: summary = await git.diffSummary(["--cached"])
FcStagedSummary ==
    /\ pc = "fc_staged"
    /\ calls' = calls \cup {"diffSummary"}
    /\ \E fails \in (IF repo.isRepo THEN BOOLEAN ELSE {TRUE}) :
          IF fails
          THEN FcThrow(summaryError(gitFailure)) /\ UNCHANGED summary
          ELSE /\ summary' = <<[files |-> repo.files]>>
               /\ pc' = IF needsFallback(summary'[1]) THEN "fc_unstaged"
                        ELSE "fc_loop"
               /\ UNCHANGED error
    /\ UNCHANGED <<params, diffs, status, changedFiles, analysis, suggestions,
                   loopI, response>>

\* line 136: summary = await git.diffSummary()
FcUnstagedSummary ==
    /\ pc = "fc_unstaged"
    /\ calls' = calls \cup {"diffSummaryUnstaged"}
    /\ \E fails \in BOOLEAN :
          IF fails
          THEN FcThrow(summaryError(gitFailure)) /\ UNCHANGED summary
          ELSE /\ summary' = <<[files |-> repo.unstaged]>>
               /\ pc' = "fc_loop"
               /\ UNCHANGED error
    /\ UNCHANGED <<params, diffs, status, changedFiles, analysis, suggestions,
                   loopI, response>>

\* lines 159-161: an excluded file is skipped
FcSkipExcluded ==
    /\ pc = "fc_loop"
    /\ loopI < Len(summary[1].files)
    /\ isExcluded(summary[1].files[loopI + 1])
    /\ loopI' = loopI + 1
    /\ UNCHANGED <<params, diffs, pc, calls, status, summary, changedFiles,
                   analysis, suggestions, error, response>>

\* what git diff -- <path> prints: the working tree's changes to the file
diffText(r, path) ==
    IF \E k \in 1..Len(r.unstaged) : r.unstaged[k].file = path
    THEN "diff --git a/" \o path \o " b/" \o path
    ELSE ""

\* line 169
placeholder(path) == "Error: Could not retrieve diff for " \o path

\* mutant: a file whose diff could not be read is left out
pushDiff_dropsFailed(list, path, fails) ==
    IF fails THEN list
    ELSE Append(list, [file |-> path, diff |-> diffText(repo, path)])

\* lines 164-172: diffs.push({ file: file.file, diff })
pushDiff(list, path, fails) ==
    Append(list, [file |-> path,
                  diff |-> IF fails THEN placeholder(path)
                           ELSE diffText(repo, path)])

\* lines 163-172: git.diff(["--", file.file]) answers or fails
FcDiff ==
    /\ pc = "fc_loop"
    /\ loopI < Len(summary[1].files)
    /\ ~isExcluded(summary[1].files[loopI + 1])
    /\ calls' = calls \cup {"diff"}
    /\ \E fails \in BOOLEAN :
          diffs' = pushDiff(diffs, summary[1].files[loopI + 1].file, fails)
    /\ loopI' = loopI + 1
    /\ UNCHANGED <<params, pc, status, summary, changedFiles, analysis,
                   suggestions, error, response>>

\* line 182: return diffs
FcReturn ==
    /\ pc = "fc_loop"
    /\ loopI = Len(summary[1].files)
    /\ response' = <<diffs>>
    /\ pc' = "fc_done"
    /\ UNCHANGED <<params, diffs, calls, status, summary, changedFiles, analysis,
                   suggestions, loopI, error>>

\* lines 183-199: a ValidationError or GitOperationError is thrown on to the
\* caller, any other error is wrapped first
FcCatch ==
    /\ pc = "fc_catch"
    /\ error' = IF error[1].name \in {"ValidationError", "GitOperationError"}
                THEN error
                ELSE <<GitOperationError("Unexpected error while getting file changes: "
                                         \o error[1].message)>>
    /\ pc' = "fc_thrown"
    /\ UNCHANGED <<params, diffs, calls, status, summary, changedFiles, analysis,
                   suggestions, loopI, response>>

NextAccess ==
    \/ Next
    \/ FcValidateParams
    \/ FcCheckExists
    \/ FcCheckIsRepo
    \/ FcStagedSummary
    \/ FcUnstagedSummary
    \/ FcSkipExcluded
    \/ FcDiff
    \/ FcReturn
    \/ FcCatch

SpecAccess == InitAccess /\ [][NextAccess]_vars

\* the change set the claim describes: staged, or the rest when none is staged
Selected(r) == IF Len(r.files) > 0 THEN r.files ELSE r.unstaged

\* getFileChangesInDirectory has chosen its summary
FcSelected == pc \in {"fc_loop", "fc_done"}

\* generateCommitMessage has its summary
GenQueried == pc \in {"await", "dispatch", "analyze", "loop", "done"} /\ summary # <<>>

\* C14, as stated: both operations work on the staged change set or, when
\* it is empty, on the change set of the fallback.
C14_SameFileList ==
    (FcSelected \/ GenQueried) => summary[1].files = Selected(repo)

\* C14, amended: getFileChangesInDirectory works on the staged change set
\* or, when it is empty, on the unstaged one; generateCommitMessage works on
\* the staged change set only and never asks for the unstaged one.
C14_StagedPreferred ==
    /\ FcSelected => summary[1].files = Selected(repo)
    /\ GenQueried => summary[1].files = repo.files
    /\ "diffSummaryUnstaged" \in calls =>
          /\ pc \in {"fc_unstaged", "fc_loop", "fc_done", "fc_catch", "fc_thrown"}
          /\ repo.files = <<>>

\* nothing staged: the accessor has listed the working tree's changes
C14_Witness ==
    /\ pc = "fc_done"
    /\ repo.files = <<>>
    /\ Len(response[1]) = 2

\* the files of the chosen summary that hold no exclusion marker
Included == SelectSeq(summary[1].files, LAMBDA f : ~HoldsMarker(f.file))

\* C20: getFileChangesInDirectory returns one {file, diff} entry per
\* non-excluded file of the chosen change set, in its order; an entry's diff
\* is the file's diff or, the retrieval having failed, the placeholder
\* naming that file; no entry is dropped and the listing is never aborted
\* once the change set is chosen.
C20_OneEntryPerFile ==
    /\ pc \in {"fc_loop", "fc_done"} =>
          /\ Len(diffs) <= Len(Included)
          /\ \A k \in 1..Len(diffs) :
                /\ diffs[k].file = Included[k].file
                /\ diffs[k].diff \in {diffText(repo, Included[k].file),
                                      "Error: Could not retrieve diff for "
                                         \o Included[k].file}
    /\ pc = "fc_done" => response[1] = diffs /\ Len(diffs) = Len(Included)
    /\ "diff" \in calls => pc \in {"fc_loop", "fc_done"}

\* two files listed, the first one's diff could not be read
C20_Witness ==
    /\ pc = "fc_done"
    /\ Paths(summary[1].files) = AccessPaths
    /\ Len(response[1]) = 2
    /\ response[1][1].diff = "Error: Could not retrieve diff for docs/api.md"
    /\ response[1][2].diff = "diff --git a/src/app.ts b/src/app.ts"

(***************************************************************************)
(* The aggregation rules over further change sets.                         *)
(***************************************************************************)
\* path lists in the order git reports them: the scenarios of the test
\* suite, source files beside another file, a manifest, readme files with
\* and without a Markdown file, stylesheets beside another file
AggregatePathLists ==
    {<<"src/utils/validation.ts">>,
     <<"src/features/auth.ts", "src/types/user.ts">>,
     <<"lib/core.js", "lib/util.tsx", "notes.txt">>,
     <<"src/app.test.ts">>,
     <<"package.json", "src/index.ts">>,
     <<"README.txt">>,
     <<"README", "docs/guide.md">>,
     <<"assets/logo.png", "styles/main.css">>,
     <<"src/components/Button.scss", "src/styles/main.css">>}

\* a conventional call for one suggestion, with and without scope
InitAggregate ==
    /\ rootDir \in RootDirs
    /\ style = "conventional"
    /\ maxSuggestions = MinSuggestions
    /\ includeScope \in BOOLEAN
    /\ repo \in ReposOf(AggregatePathLists)
    /\ pc = "start"
    /\ calls = {}
    /\ status = <<>>
    /\ summary = <<>>
    /\ changedFiles = <<>>
    /\ analysis = <<>>
    /\ suggestions = <<>>
    /\ loopI = 0
    /\ error = <<>>
    /\ response = <<>>
    /\ diffs = <<>>

SpecAggregate == InitAggregate /\ [][Next]_vars

\* C21: the change set is the one file src/utils/validation.ts, changed
\* with both insertions and deletions: the primary conventional message has
\* type 'fix' and scope 'utils'.
C21_BugFixScenario ==
    (/\ NormalPath
     /\ includeScope
     /\ Paths(changedFiles) = <<"src/utils/validation.ts">>
     /\ Mixed(changedFiles[1])) =>
        /\ Resp.suggestions[1].type = "fix"
        /\ Resp.suggestions[1].scope = <<"utils">>
        /\ startsWith(Resp.suggestions[1].message, "fix(utils): ")

\* C22: the change set is src/features/auth.ts and src/types/user.ts, both
\* net additions: the primary conventional message has type 'feat' and
\* scope 'auth'.
C22_NewFeatureScenario ==
    (/\ NormalPath
     /\ includeScope
     /\ Paths(changedFiles) = <<"src/features/auth.ts", "src/types/user.ts">>
     /\ \A k \in 1..2 : NetAdded(changedFiles[k])) =>
        /\ Resp.suggestions[1].type = "feat"
        /\ Resp.suggestions[1].scope = <<"auth">>
        /\ startsWith(Resp.suggestions[1].message, "feat(auth): ")

\* the conditions of the rules, read off the paths
ExtensionIn(f, exts) == \E e \in exts : endsWith(toLowerCase(f.file), "." \o e)
AllFiles(P(_)) == \A k \in 1..Len(changedFiles) : P(changedFiles[k])
SomeFile(P(_)) == \E k \in 1..Len(changedFiles) : P(changedFiles[k])
ReadmeOrMarkdown(f) ==
    includes(toLowerCase(f.file), "readme") \/ endsWith(f.file, ".md")
DocsRule == SomeFile(LAMBDA f : ExtensionIn(f, {"md"})) /\ AllFiles(ReadmeOrMarkdown)
ManifestRule == SomeFile(LAMBDA f : f.file = "package.json")
LockfileRule ==
    SomeFile(LAMBDA f : \E name \in {"package-lock.json", "yarn.lock", "bun.lock"} :
                           includes(f.file, name))
SourceRule == SomeFile(LAMBDA f : ExtensionIn(f, {"ts", "js", "jsx", "tsx"}))
TestNamed(f) == includes(f.file, "test") \/ includes(f.file, "spec")
Stylesheet(f) == ExtensionIn(f, {"css", "scss", "sass", "less"})

\* a source change set the earlier rules and the test rule leave alone
SourceChange ==
    /\ analysis # <<>>
    /\ SourceRule
    /\ ~DocsRule /\ ~ManifestRule /\ ~LockfileRule
    /\ ~AllFiles(TestNamed)

\* C23: for such a change set the aggregate is feat / 'add new
\* functionality' when some file is a net addition and none a net deletion,
\* refactor / 'remove code' when some file is a net deletion and none a net
\* addition, refactor / 'restructure code' when both are present, whatever
\* other files the set holds.
C23_SourceRules ==
    SourceChange =>
        LET added == SomeFile(NetAdded)
            deleted == SomeFile(NetDeleted)
            a == analysis[1]
        IN /\ (added /\ ~deleted) =>
                 a.type = "feat" /\ a.description = "add new functionality"
           /\ (deleted /\ ~added) =>
                 a.type = "refactor" /\ a.description = "remove code"
           /\ (added /\ deleted) =>
                 a.type = "refactor" /\ a.description = "restructure code"

\* a net deletion beside a mixed modification and a binary file
C23_Witness ==
    /\ SourceChange
    /\ Len(changedFiles) = 3
    /\ NetDeleted(changedFiles[1])
    /\ Mixed(changedFiles[2])
    /\ changedFiles[3].binary
    /\ analysis[1].description = "remove code"

\* C26: every included file ends in '.md' or holds 'readme' in its path:
\* the aggregate is docs / 'update documentation', also when the set holds
\* no '.md' file.
C26_DocsRule ==
    (analysis # <<>> /\ AllFiles(ReadmeOrMarkdown)) =>
        /\ analysis[1].type = "docs"
        /\ analysis[1].description = "update documentation"

\* C27: rules 1 to 4 not matching, the aggregate is style / 'update styles'
\* exactly when every included file has a stylesheet extension.
C27_StyleRule ==
    (/\ analysis # <<>>
     /\ ~DocsRule /\ ~ManifestRule /\ ~LockfileRule /\ ~SourceRule) =>
        ((analysis[1].type = "style" /\ analysis[1].description = "update styles")
            <=> AllFiles(Stylesheet))

C24_StepOrder ==
    /\ pc = "start" => calls = {}
    /\ "existsSync" \in calls => rootDir # "" /\ ~outOfRange(maxSuggestions)
    /\ "checkIsRepo" \in calls => "existsSync" \in calls /\ repo.exists
    /\ calls \cap {"status", "diffSummary"} # {} =>
          /\ {"existsSync", "checkIsRepo", "status", "diffSummary"} \subseteq calls
          /\ error = <<>> \/ error[1].name = "GitOperationError"
    /\ (status # <<>> \/ summary # <<>>) => {"status", "diffSummary"} \subseteq calls
    /\ pc \in {"dispatch", "analyze", "loop"} => status # <<>> /\ summary # <<>>
    /\ changedFiles # <<>> => Queried
    /\ "analyzeChanges" \in calls =>
          /\ Queried
          /\ repo.isRepo
          /\ changedFiles = SelectSeq(summary[1].files, LAMBDA f : ~HoldsMarker(f.file))
          /\ analysis # <<>>
    /\ analysis # <<>> => "analyzeChanges" \in calls
    /\ "generateSuggestion" \in calls => analysis # <<>> /\ suggestions # <<>>
    /\ suggestions # <<>> => "generateSuggestion" \in calls
    /\ NormalPath => Resp.suggestions = suggestions /\ suggestions # <<>>
    /\ (error # <<>> /\ error[1].name = "ValidationError") =>
          calls \subseteq {"existsSync", "checkIsRepo"}

\* a call that went through every step and returned three suggestions
C24_Witness ==
    /\ NormalPath
    /\ Len(suggestions) = 3

\* the suggestion that stands for a variant whose synthesis failed
IsFallback(s, k) ==
    /\ s.message = "Update code"
    /\ s.type = "feat"
    /\ s.scope = <<>>
    /\ s.priority = (IF k = 1 THEN "primary" ELSE "alternative")
    /\ startsWith(s.rationale, "Fallback suggestion due to error: ")

\* callers may pass any string as style; an empty one makes every synthesis
\* fail
StyleInputs == Styles \cup {""}

SynthesisPathLists == {<<"bun.lock", "src/utils/validation.ts">>}

InitSynthesis ==
    /\ rootDir \in RootDirs
    /\ style \in StyleInputs
    /\ maxSuggestions \in MaxSuggestionsInputs
    /\ includeScope \in BOOLEAN
    /\ repo \in ReposOf(SynthesisPathLists)
    /\ pc = "start"
    /\ calls = {}
    /\ status = <<>>
    /\ summary = <<>>
    /\ changedFiles = <<>>
    /\ analysis = <<>>
    /\ suggestions = <<>>
    /\ loopI = 0
    /\ error = <<>>
    /\ response = <<>>
    /\ diffs = <<>>

SpecSynthesis == InitSynthesis /\ [][Next]_vars

\* C25: the variants are generated in increasing order, suggestions[i] is
\* the rendering of variant i, and a synthesis that fails puts the fallback
\* suggestion at its position: nothing is cancelled and the response holds
\* exactly maxSuggestions suggestions.
C25_FallbackKeepsCount ==
    analysis # <<>> =>
        /\ pc \in {"loop", "done"}
        /\ error = <<>>
        /\ Len(suggestions) = loopI
        /\ pc = "done" => Resp.suggestions = suggestions
                          /\ Len(suggestions) = maxSuggestions
        /\ \A k \in 1..Len(suggestions) :
              /\ suggestions[k].priority = (IF k = 1 THEN "primary" ELSE "alternative")
              /\ suggestions[k].style = style
              /\ IF style = ""
                 THEN IsFallback(suggestions[k], k)
                 ELSE /\ suggestions[k] =
                            generateSuggestion(analysis[1], style, includeScope, k - 1)
                      /\ ~IsFallback(suggestions[k], k)

\* every synthesis failed and the response still holds three suggestions
C25_Witness ==
    /\ NormalPath
    /\ style = ""
    /\ maxSuggestions = 3
    /\ \A k \in 1..3 : IsFallback(Resp.suggestions[k], k)

\* the description with its leading word 'update' replaced
Reworded(d, verb) ==
    IF startsWith(d, "update ") THEN verb \o SubSeq(d, 7, Len(d)) ELSE d

\* C28: a conventional message is 'type(scope): D' when includeScope holds
\* and the scope (lower-cased) is not empty, 'type: D' otherwise; D is the description for
\* variant 0, with 'update' replaced by 'improve' for variant 1 and by
\* 'modify' for variant 2, and the description again for variants 3 and 4;
\* without includeScope the scope is in neither the message nor the scope
\* field.
C28_ConventionalRendering ==
    (NormalPath /\ style = "conventional") =>
        LET a == analysis[1]
            scope == toLowerCase(a.scope)
            head == IF includeScope /\ scope # ""
                    THEN a.type \o "(" \o scope \o "): "
                    ELSE a.type \o ": "
            D(k) == IF k = 2 THEN Reworded(a.description, "improve")
                    ELSE IF k = 3 THEN Reworded(a.description, "modify")
                    ELSE a.description
        IN \A k \in 1..Len(Resp.suggestions) :
              /\ Resp.suggestions[k].message = head \o D(k)
              /\ Resp.suggestions[k].scope =
                    (IF includeScope /\ scope # "" THEN <<scope>> ELSE <<>>)
              /\ ~includeScope => ~includes(Resp.suggestions[k].message, "(")

\* five suggestions for a scoped aggregate, the scope not asked for
C28_Witness ==
    /\ NormalPath
    /\ style = "conventional"
    /\ ~includeScope
    /\ analysis[1].scope = "auth"
    /\ Len(Resp.suggestions) = 5
    /\ Resp.suggestions[2].message = "refactor: improve implementation"
    /\ Resp.suggestions[5].message = "refactor: update implementation"

\* C30: the list taken from the staged change set, the diff of every entry
\* is the file's staged diff: an entry whose diff was retrieved is not
\* empty, also for a file with no further edits in the working tree.
C30_DiffOfSelectedSet ==
    (pc = "fc_done" /\ repo.files # <<>>) =>
        \A k \in 1..Len(response[1]) : response[1][k].diff # ""

====
